---- MODULE Spec2Model ----
(***************************************************************************)
(* Model of the request-execution engine of src/client/paypal.rs:          *)
(* Client::execute and Client::authenticate run as concurrent asynchronous *)
(* tasks over one Client whose AuthData sits behind a tokio RwLock.        *)
(***************************************************************************)
EXTENDS Integers, Sequences, FiniteSets, TLC

(* ------------------------------ bounds --------------------------------- *)
NumTasks == 2
MaxCalls == 2
MaxRetries == 1
MaxTime == 1
MaxLifetime == 2

Tasks == 1..NumTasks

(* --------------------------- AuthData ---------------------------------- *)
\* The safety margin of AuthData::about_to_expire.
Margin == 1

\* expires_at of an AuthData that no authentication has written yet.
NoExpiry == -1

\* AuthData::default(): empty token, empty type, no expiry.  Tokens are
\* named by the number of the token response that carried them; 0 is the
\* empty string of the default.  exp_of is the response expires_at was
\* computed from.
AuthDataDefault ==
    [access_token |-> 0, token_type |-> 0, expires_at |-> NoExpiry, exp_of |-> 0]

\* AuthData::about_to_expire at time t.
about_to_expire(ad, t) ==
    \/ ad.expires_at = NoExpiry
    \/ ad.expires_at - t <= Margin

\* One field assignment of AuthData::update(response); the update is the
\* three assignments in order, under the exclusive lock.
update_field(ad, resp, i, t) ==
    CASE i = 0 -> [ad EXCEPT !.access_token = resp.access_token]
      [] i = 1 -> [ad EXCEPT !.token_type = resp.token_type]
      [] OTHER -> [ad EXCEPT !.expires_at = t + resp.expires_in,
                             !.exp_of = resp.id]

UpdateSteps == 3

(* ------------------------ endpoint descriptors ------------------------- *)
AuthStrategies == {"None", "TokenRefresh"}

\* Response types by what serde accepts: "empty" is EmptyResponseBody,
\* "optional" a struct of Option fields only, "required" a struct with a
\* field that must be present.
ResponseTypes == {"empty", "optional", "required"}

\* Option<T>: << >> is None, <<v>> is Some(v).
None == << >>
Some(v) == <<v>>

\* What request_body() returns: None (the default, RequestBody = ()), Some
\* DTO, or Some value whose Serialize implementation fails.
RequestBodies == {"none", "dto", "unserializable"}

\* One Authorization value: a scheme and what follows it.  0 is the empty
\* string.
Basic(credential) == [scheme |-> "Basic", value |-> credential]
Bearer(access_token) == [scheme |-> "Bearer", value |-> access_token]

\* The Authorization entries of headers().to_vec(): none, or the value the
\* descriptor's HttpRequestHeaders were made with.
DescriptorAuthorizations == {<< >>, <<Basic(0)>>}

\* Every descriptor: auth strategy, response type, request body, headers.
Descriptors ==
    [auth_strategy : AuthStrategies, response : ResponseTypes,
     request_body : RequestBodies, authorization : DescriptorAuthorizations]

\* The descriptors of every auth strategy and response type, without a
\* request body and without an Authorization entry in their headers.
Endpoints ==
    {e \in Descriptors : e.request_body = "none" /\ e.authorization = << >>}

\* The descriptor slot of a task that runs no execute.
NoEndpoint ==
    [auth_strategy |-> "None", response |-> "empty", request_body |-> "none",
     authorization |-> << >>]

(* --------------------------- request building -------------------------- *)
\* The verb methods of the Client.
Methods == {"get", "post", "patch", "delete"}

\* serde_json::to_string(&endpoint.request_body()): None serializes to the
\* JSON text null, Some(dto) to the JSON text of the DTO.
to_string(request_body) ==
    CASE request_body = "none" -> [ok |-> TRUE, text |-> "null"]
      [] request_body = "dto" -> [ok |-> TRUE, text |-> "dto-json"]
      [] OTHER -> [ok |-> FALSE, text |-> ""]

\* A RequestBuilder: the method, the values of its Authorization header in
\* the order they were added, and the body if one was set.
NoRequest == [method |-> "none", authorization |-> << >>, body |-> None]

\* RequestBuilder::header(AUTHORIZATION, value): the value is appended to
\* the values the request already has under the name.
header(request, value) ==
    [request EXCEPT !.authorization = Append(@, value)]

\* set_request_headers, lines 193-203: one header call per entry of
\* headers.to_vec(); of the entries only Authorization is modelled.
RECURSIVE set_request_headers(_, _)
set_request_headers(request_builder, headers) ==
    IF headers = << >> THEN request_builder
    ELSE set_request_headers(header(request_builder, Head(headers)),
                             Tail(headers))

\* The request a verb method hands to execute, lines 119-183: get and
\* delete set no body, post and patch set the serialized request_body().
build_request(method, e) ==
    set_request_headers(
        [NoRequest EXCEPT !.method = method,
                          !.body = IF method \in {"post", "patch"}
                                   THEN Some(to_string(e.request_body).text)
                                   ELSE None],
        e.authorization)

\* Whether the verb method gets to execute: post and patch return the
\* serialization error of line 138 / 158 first.
reaches_execute(method, e) ==
    method \in {"get", "delete"} \/ to_string(e.request_body).ok

(* ----------------------------- URL composer ---------------------------- *)
Environments == {"Sandbox", "Live"}

\* RequestUrl::as_url(): the base URL of an environment, as the assertions
\* of test_compose_url give it.  A URL is its scheme, host, path (a text, as
\* the sequence of its pieces) and query (None or the text after the ?).
as_url_same_host(env) ==
    [scheme |-> "https", host |-> "api-m.sandbox.paypal.com",
     path |-> <<"/">>, query |-> None]

as_url(env) ==
    [scheme |-> "https",
     host |-> IF env = "Sandbox" THEN "api-m.sandbox.paypal.com"
              ELSE "api-m.paypal.com",
     path |-> <<"/">>, query |-> None]

\* Request paths, as sequences of pieces of text: the empty path, relative
\* and absolute paths, a path with a character the URL syntax reserves.
Paths ==
    {<< >>, <<"test">>, <<"/", "test">>,
     <<"v1", "/", "notifications", "/", "webhooks">>, <<"a", "?", "b">>}

\* Percent-encoding of one piece of a path by Url::set_path.
encode_path_piece(piece) ==
    CASE piece = "?" -> "%3F"
      [] piece = "#" -> "%23"
      [] piece = " " -> "%20"
      [] OTHER -> piece

RECURSIVE encode_path(_)
encode_path(p) ==
    IF p = << >> THEN << >>
    ELSE <<encode_path_piece(Head(p))>> \o encode_path(Tail(p))

\* Url::set_path on an https URL: the path is made absolute and its
\* reserved characters are percent-encoded; the rest of the URL is kept.
set_path(url, path) ==
    [url EXCEPT !.path =
        IF path # << >> /\ Head(path) = "/" THEN encode_path(path)
        ELSE <<"/">> \o encode_path(path)]

\* Url::set_query(Some(text)).
set_query(url, query) == [url EXCEPT !.query = query]

\* compose_url that sets the path of the Client's own base URL.
compose_url_in_place(self_base_url, request_path) ==
    [base_url |-> set_path(self_base_url, request_path),
     url |-> set_path(self_base_url, request_path)]

\* compose_url, lines 72-76: the URL returned, and the Client's base_url
\* after the call (the path is set on a clone).
compose_url(self_base_url, request_path) ==
    [base_url |-> self_base_url,
     url |-> set_path(self_base_url, request_path)]

\* QueryParams: three optional fields.
QueryParams ==
    [page : {None, Some(1)}, page_size : {None, Some(10)},
     total_count_required : {None, Some(TRUE), Some(FALSE)}]

\* The decimal text of a number and the text of a boolean.
Digits == <<"0", "1", "2", "3", "4", "5", "6", "7", "8", "9">>

RECURSIVE fmt_u64(_)
fmt_u64(n) ==
    IF n < 10 THEN <<Digits[n + 1]>>
    ELSE fmt_u64(n \div 10) \o <<Digits[(n % 10) + 1]>>

fmt_bool(b) == IF b THEN <<"true">> ELSE <<"false">>

\* One key=value pair of a query string, if the field is set.
pair(key, field, text) ==
    IF field = None THEN << >> ELSE <<[key |-> key, value |-> text]>>

\* serde_qs::to_string(query): the set fields as key=value pairs in the
\* order of the struct's fields; the text is the pairs joined by &.
serde_qs_to_string(query) ==
    pair("page", query.page,
         IF query.page = None THEN << >> ELSE fmt_u64(query.page[1]))
    \o pair("page_size", query.page_size,
            IF query.page_size = None THEN << >>
            ELSE fmt_u64(query.page_size[1]))
    \o pair("total_count_required", query.total_count_required,
            IF query.total_count_required = None THEN << >>
            ELSE fmt_bool(query.total_count_required[1]))

\* compose_url_with_query that sets the query whatever the text is.
compose_url_with_query_always_set(self_base_url, request_path, query) ==
    set_query(compose_url(self_base_url, request_path).url,
              Some(serde_qs_to_string(query)))

\* compose_url_with_query, lines 87-101: the Ok value.
compose_url_with_query(self_base_url, request_path, query) ==
    IF serde_qs_to_string(query) = << >>
    THEN compose_url(self_base_url, request_path).url
    ELSE set_query(compose_url(self_base_url, request_path).url,
                   Some(serde_qs_to_string(query)))

(* ------------------------- transport outcomes -------------------------- *)
\* HTTP statuses the servers answer with: one per class the code or the retry
\* middleware tells apart (2xx, 4xx, the two retryable 4xx, 5xx).
Statuses == {200, 401, 408, 429, 500}

is_success(status) == status \div 100 = 2

Lifetimes == 1..MaxLifetime

\* Bodies of the token endpoint: a well-formed token response (with its
\* expires_in), the provider's error envelope, malformed text, nothing.
TokenBodies ==
    [kind : {"token"}, expires_in : Lifetimes]
        \cup [kind : {"envelope", "garbage", "empty"}, expires_in : {0}]

\* What one send of the token request ends in: a network error (transient,
\* such as a connect failure or a timeout, or not) or a response.
NetErrors ==
    [kind : {"neterr"}, transient : BOOLEAN, status : {0},
     body : {[kind |-> "empty", expires_in |-> 0]}]

TokenOutcomes ==
    NetErrors \cup
    [kind : {"response"}, transient : {FALSE}, status : Statuses, body : TokenBodies]

\* Retryable with every failure taken for transient.
Retryable_every_failure(o) ==
    IF o.kind = "neterr" THEN "transient"
    ELSE IF is_success(o.status) THEN "success"
    ELSE "transient"

\* The retry middleware's classification of one attempt (the default
\* strategy of RetryTransientMiddleware): 5xx, 408 and 429 and transient
\* network errors are retried, other failures are fatal, 2xx is a success.
Retryable(o) ==
    IF o.kind = "neterr"
    THEN (IF o.transient THEN "transient" ELSE "fatal")
    ELSE IF o.status \div 100 = 5 THEN "transient"
    ELSE IF o.status \in {408, 429} THEN "transient"
    ELSE IF is_success(o.status) THEN "success"
    ELSE "fatal"

\* Option<NonZero>: << >> is None, <<n>> is Some(n).
RetryCounts == {<< >>} \cup {<<n>> : n \in 1..MaxRetries}

\* let mut retries = 0; if let Some(retry_count) = ... { retries = retry_count.get() }
retries_of(retry_count) ==
    IF retry_count = << >> THEN 0 ELSE retry_count[1]

\* should_retry with the budget off by one.
should_retry_off_by_one(o, n_past_retries, max_retries) ==
    Retryable(o) = "transient" /\ n_past_retries <= max_retries

\* should_retry without a budget: a transient failure is always retried.
should_retry_unbounded(o, n_past_retries, max_retries) ==
    Retryable(o) = "transient"

\* ExponentialBackoff with max_retries: retry while the retries made so far
\* are fewer than max_retries.
should_retry(o, n_past_retries, max_retries) ==
    Retryable(o) = "transient" /\ n_past_retries < max_retries

NoAuthResponse == [id |-> 0, access_token |-> 0, token_type |-> 0, expires_in |-> 0]

\* parse_auth_response that takes any body for a token response.
parse_auth_response_lenient(body, id) ==
    IF body.kind = "token"
    THEN [ok |-> TRUE,
          value |-> [id |-> id, access_token |-> id, token_type |-> id,
                     expires_in |-> body.expires_in]]
    ELSE [ok |-> TRUE, value |-> NoAuthResponse]

\* serde_json::from_str::<AuthResponse>(text): the token response numbered id.
parse_auth_response(body, id) ==
    IF body.kind = "token"
    THEN [ok |-> TRUE,
          value |-> [id |-> id, access_token |-> id, token_type |-> id,
                     expires_in |-> body.expires_in]]
    ELSE [ok |-> FALSE, value |-> NoAuthResponse]

(* --------------------------- primary responses ------------------------- *)
Envelopes == {1, 2}
Docs == {1, 2}

\* Bodies of a resource endpoint: a JSON document of the descriptor's
\* response shape, a provider error envelope, malformed text, JSON cut off
\* before its end, nothing.
Bodies ==
    [kind : {"doc"}, v : Docs] \cup [kind : {"envelope"}, v : Envelopes]
        \cup [kind : {"garbage", "truncated", "empty"}, v : {0}]

PrimaryOutcomes ==
    [kind : {"neterr"}, status : {0}, body : {[kind |-> "empty", v |-> 0]}]
        \cup [kind : {"response"}, status : Statuses, body : Bodies]

\* Results of a call, as PayPalError's From conversions tell them apart.
Pending == [kind |-> "pending", cause |-> "none", value |-> 0]
Ok(v) == [kind |-> "ok", cause |-> "none", value |-> v]
ApiError(e) == [kind |-> "api", cause |-> "envelope", value |-> e]
ReqwestError(c) == [kind |-> "reqwest", cause |-> c, value |-> 0]
MiddlewareError == [kind |-> "reqwest_middleware", cause |-> "transport", value |-> 0]
SerdeError == [kind |-> "serde_json", cause |-> "decode", value |-> 0]

\* The value an empty JSON object deserializes to.
EmptyShaped == 0

\* response.json::<ValidationError>(): only an envelope parses.
parse_envelope(body) ==
    IF body.kind = "envelope"
    THEN [ok |-> TRUE, value |-> body.v]
    ELSE [ok |-> FALSE, value |-> 0]

\* from_str with the error of an empty text not taken for end-of-input.
from_str_empty_not_eof(body, response) ==
    CASE body.kind = "doc" -> [ok |-> TRUE, eof |-> FALSE, value |-> body.v]
      [] body.kind = "envelope" ->
            IF response = "required"
            THEN [ok |-> FALSE, eof |-> FALSE, value |-> 0]
            ELSE [ok |-> TRUE, eof |-> FALSE, value |-> EmptyShaped]
      [] body.kind = "truncated" -> [ok |-> FALSE, eof |-> TRUE, value |-> 0]
      [] OTHER -> [ok |-> FALSE, eof |-> FALSE, value |-> 0]

\* serde_json::from_str::<T::ResponseBody>(text): ok, or an error that is or
\* is not EOF.  An envelope is a JSON object without the fields of the
\* response shape.
from_str(body, response) ==
    CASE body.kind = "doc" -> [ok |-> TRUE, eof |-> FALSE, value |-> body.v]
      [] body.kind = "envelope" ->
            IF response = "required"
            THEN [ok |-> FALSE, eof |-> FALSE, value |-> 0]
            ELSE [ok |-> TRUE, eof |-> FALSE, value |-> EmptyShaped]
      [] body.kind = "garbage" -> [ok |-> FALSE, eof |-> FALSE, value |-> 0]
      [] OTHER -> [ok |-> FALSE, eof |-> TRUE, value |-> 0]

\* serde_json::from_str::<T::ResponseBody>("{}")
from_empty_object(response) ==
    IF response = "required" THEN SerdeError ELSE Ok(EmptyShaped)

\* map_outcome without the status check of line 233.
map_outcome_status_unchecked(o, response) ==
    IF o.kind = "neterr" THEN ReqwestError("transport")
    ELSE IF from_str(o.body, response).ok
    THEN Ok(from_str(o.body, response).value)
    ELSE IF from_str(o.body, response).eof
    THEN from_empty_object(response)
    ELSE SerdeError

\* map_outcome going on to the success path when the envelope does not parse.
map_outcome_envelope_optional(o, response) ==
    IF o.kind = "neterr" THEN ReqwestError("transport")
    ELSE IF ~is_success(o.status) /\ parse_envelope(o.body).ok
    THEN ApiError(parse_envelope(o.body).value)
    ELSE IF from_str(o.body, response).ok
    THEN Ok(from_str(o.body, response).value)
    ELSE IF from_str(o.body, response).eof
    THEN from_empty_object(response)
    ELSE SerdeError

\* map_outcome with a failed send taken for an empty response.
map_outcome_neterr_swallowed(o, response) ==
    IF o.kind = "neterr" THEN from_empty_object(response)
    ELSE IF ~is_success(o.status)
    THEN (IF parse_envelope(o.body).ok
          THEN ApiError(parse_envelope(o.body).value)
          ELSE ReqwestError("decode"))
    ELSE IF from_str(o.body, response).ok
    THEN Ok(from_str(o.body, response).value)
    ELSE IF from_str(o.body, response).eof
    THEN from_empty_object(response)
    ELSE SerdeError

\* Lines 229-250 of execute: the result for one outcome of the send.
map_outcome(o, response) ==
    IF o.kind = "neterr" THEN ReqwestError("transport")
    ELSE IF ~is_success(o.status)
    THEN (IF parse_envelope(o.body).ok
          THEN ApiError(parse_envelope(o.body).value)
          ELSE ReqwestError("decode"))
    ELSE IF from_str(o.body, response).ok
    THEN Ok(from_str(o.body, response).value)
    ELSE IF from_str(o.body, response).eof
    THEN from_empty_object(response)
    ELSE SerdeError

(* ------------------------------- state --------------------------------- *)
VARIABLES
    auth_data,      \* Client.auth_data: the AuthData behind the RwLock
    lock,           \* the RwLock: tasks holding it shared, task holding it exclusively
    retry_count,    \* Authenticate's request_strategy().get_retry_count()
    now,            \* the clock
    calls,          \* calls started so far
    issued,         \* token responses issued so far
    pc,             \* where each task is in execute / authenticate
    op,             \* what each task called: a verb method or authenticate
    endpoint,       \* the descriptor of the task's call
    observed,       \* what about_to_expire() returned to the task's execute
    attempts,       \* token requests sent by the task's authenticate
    retry_cause,    \* status (0: network error) the latest retry followed, -1: none
    token_resp,     \* the response the retry client returned to authenticate,
                    \* numbered if it carries a token
    parsed,         \* the AuthResponse authenticate deserialized
    upd,            \* fields of AuthData the task's update has written
    bearer,         \* token in the Authorization header of the primary request
    sent,           \* primary requests the task's execute has sent
    result,         \* what the call returned
    hs,             \* how the task's authenticate ended: none (not yet), ok, failed
    handshakes,     \* authenticate() invocations of the task's call
    outcome,        \* how the send of the task's primary request ended
    last_written,   \* the latest completed update: response, time, lifetime
    environment,    \* Client.environment
    base_url,       \* Client.base_url
    username,       \* Client.username
    client_secret,  \* Client.client_secret
    url,            \* what the latest compose_url(_with_query) call was given
                    \* and returned
    request         \* the RequestBuilder of the task's call, until it is sent

vars == <<auth_data, lock, retry_count, now, calls, issued, pc, op, endpoint,
          observed, attempts, retry_cause, token_resp, parsed, upd, bearer,
          sent, result, hs, handshakes, outcome, last_written, environment,
          base_url, username, client_secret, url, request>>

configVars == <<environment, base_url, username, client_secret, url>>
clientVars == <<auth_data, lock, retry_count, configVars>>
authLocals == <<attempts, retry_cause, token_resp, parsed, upd, hs, handshakes>>
execLocals == <<observed, bearer, sent, outcome, request>>

NoTokenResp ==
    [status |-> 0, body |-> [kind |-> "empty", expires_in |-> 0], id |-> 0]

NoOutcome == [kind |-> "none", status |-> 0, body |-> [kind |-> "empty", v |-> 0]]

NoUpdate == [id |-> 0, at |-> 0, expires_in |-> 0]

\* No compose call yet.
NoUrl == [path |-> << >>, query |-> None, result |-> None]

\* Client::new(username, client_secret, environment), lines 41-66: the base
\* URL is that of the environment.
ClientNew(u, s, e) ==
    /\ username = u
    /\ client_secret = s
    /\ environment = e
    /\ base_url = as_url(e)

Usernames == {"username", "u"}
Secrets == {"password"}

\* Client::new: AuthData::default() behind a free lock.
InitClient ==
    /\ auth_data = AuthDataDefault
    /\ lock = [readers |-> {}, writer |-> 0]
    /\ now = 0
    /\ calls = 0
    /\ issued = 0
    /\ pc = [t \in Tasks |-> "idle"]
    /\ op = [t \in Tasks |-> "none"]
    /\ endpoint = [t \in Tasks |-> NoEndpoint]
    /\ observed = [t \in Tasks |-> FALSE]
    /\ attempts = [t \in Tasks |-> 0]
    /\ retry_cause = [t \in Tasks |-> -1]
    /\ token_resp = [t \in Tasks |-> NoTokenResp]
    /\ parsed = [t \in Tasks |-> NoAuthResponse]
    /\ upd = [t \in Tasks |-> 0]
    /\ bearer = [t \in Tasks |-> 0]
    /\ sent = [t \in Tasks |-> 0]
    /\ result = [t \in Tasks |-> Pending]
    /\ hs = [t \in Tasks |-> "none"]
    /\ handshakes = [t \in Tasks |-> 0]
    /\ outcome = [t \in Tasks |-> NoOutcome]
    /\ last_written = NoUpdate
    /\ url = NoUrl
    /\ request = [t \in Tasks |-> NoRequest]

\* The Authenticate descriptor's retry policy is any Option<NonZero>; the
\* Client is the one of the tests.
Init ==
    /\ InitClient
    /\ retry_count \in RetryCounts
    /\ ClientNew("username", "password", "Sandbox")

\* The Authenticate descriptor configures no retry.
InitConc ==
    /\ InitClient
    /\ retry_count = << >>
    /\ ClientNew("username", "password", "Sandbox")

\* Any Client: every environment, several credentials.
InitReq ==
    /\ InitClient
    /\ retry_count = << >>
    /\ \E u \in Usernames, s \in Secrets, e \in Environments : ClientNew(u, s, e)

\* The locals of a task as a call begins.
ResetLocals(t) ==
    /\ observed' = [observed EXCEPT ![t] = FALSE]
    /\ attempts' = [attempts EXCEPT ![t] = 0]
    /\ retry_cause' = [retry_cause EXCEPT ![t] = -1]
    /\ token_resp' = [token_resp EXCEPT ![t] = NoTokenResp]
    /\ parsed' = [parsed EXCEPT ![t] = NoAuthResponse]
    /\ upd' = [upd EXCEPT ![t] = 0]
    /\ bearer' = [bearer EXCEPT ![t] = 0]
    /\ sent' = [sent EXCEPT ![t] = 0]
    /\ hs' = [hs EXCEPT ![t] = "none"]
    /\ outcome' = [outcome EXCEPT ![t] = NoOutcome]

\* compose_url(request_path) with a path of P.
ComposeUrl(P) ==
    /\ \E p \in P :
        /\ url' = [path |-> p, query |-> None,
                   result |-> Some(compose_url(base_url, p).url)]
        /\ base_url' = compose_url(base_url, p).base_url
    /\ UNCHANGED <<auth_data, lock, retry_count, environment, username,
                   client_secret, now, calls, issued, pc, op, endpoint,
                   authLocals, execLocals, result, last_written>>

\* compose_url_with_query(request_path, query) with a path of P and a query
\* of Q; QueryParams always serialize.
ComposeUrlWithQuery(P, Q) ==
    /\ \E p \in P, q \in Q :
        /\ url' = [path |-> p, query |-> Some(q),
                   result |-> Some(compose_url_with_query(base_url, p, q))]
        /\ base_url' = compose_url(base_url, p).base_url
    /\ UNCHANGED <<auth_data, lock, retry_count, environment, username,
                   client_secret, now, calls, issued, pc, op, endpoint,
                   authLocals, execLocals, result, last_written>>

(* --------------------------- the RwLock -------------------------------- *)
\* RwLock::read().await is granted while no task holds the lock exclusively.
can_read(l) == l.writer = 0

\* can_write that does not wait for the readers.
can_write_despite_readers(l) == l.writer = 0

\* RwLock::write().await is granted while no task holds the lock at all.
can_write(l) == l.writer = 0 /\ l.readers = {}

\* release_read that keeps the guard: the shared lock stays held.
release_read_held(l, t) == l

\* The RwLockReadGuard is a temporary of the condition of line 219 and of
\* the statement of lines 224-227: it is dropped where those end, before
\* authenticate is called and before the request is sent.
release_read(l, t) == [l EXCEPT !.readers = @ \ {t}]

(* ------------------------------ actions -------------------------------- *)
\* A caller invokes a verb method of M (get / post / patch / delete) with a
\* descriptor of E: the verb method builds the request and enters execute,
\* unless the request body does not serialize.
Verb(t, M, E) ==
    /\ pc[t] \in {"idle", "done"}
    /\ calls < MaxCalls
    /\ ResetLocals(t)
    /\ \E m \in M, e \in E :
        /\ endpoint' = [endpoint EXCEPT ![t] = e]
        /\ IF reaches_execute(m, e)
           THEN /\ op' = [op EXCEPT ![t] = "execute"]
                /\ pc' = [pc EXCEPT ![t] = "exec_check"]
                /\ request' = [request EXCEPT ![t] = build_request(m, e)]
                /\ result' = [result EXCEPT ![t] = Pending]
           ELSE /\ op' = [op EXCEPT ![t] = m]
                /\ pc' = [pc EXCEPT ![t] = "done"]
                /\ request' = [request EXCEPT ![t] = NoRequest]
                /\ result' = [result EXCEPT ![t] = SerdeError]
    /\ calls' = calls + 1
    /\ handshakes' = [handshakes EXCEPT ![t] = 0]
    /\ UNCHANGED <<clientVars, now, issued, last_written>>

\* A caller invokes authenticate() itself.
CallAuthenticate(t) ==
    /\ pc[t] \in {"idle", "done"}
    /\ calls < MaxCalls
    /\ endpoint' = [endpoint EXCEPT ![t] = NoEndpoint]
    /\ op' = [op EXCEPT ![t] = "authenticate"]
    /\ pc' = [pc EXCEPT ![t] = "auth_send"]
    /\ calls' = calls + 1
    /\ handshakes' = [handshakes EXCEPT ![t] = 1]
    /\ ResetLocals(t)
    /\ result' = [result EXCEPT ![t] = Pending]
    /\ request' = [request EXCEPT ![t] = NoRequest]
    /\ UNCHANGED <<clientVars, now, issued, last_written>>

\* needs_check with the strategy ignored: every call checks the expiry.
needs_check_always(e) == TRUE

\* needs_check with the strategy ignored: no call checks the expiry.
needs_check_never(e) == FALSE

\* execute, line 218: the auth strategy decides whether AuthData is read
\* at all (&& short-circuits).
needs_check(e) == e.auth_strategy = "TokenRefresh"

\* execute, lines 218-219 with a None strategy: no check, no handshake.
ExecSkipCheck(t) ==
    /\ pc[t] = "exec_check"
    /\ ~needs_check(endpoint[t])
    /\ pc' = [pc EXCEPT ![t] = "exec_token"]
    /\ UNCHANGED <<clientVars, now, calls, issued, op, endpoint, authLocals,
                   execLocals, result, last_written>>

\* execute, line 219: self.auth_data.read().await
ExecCheckLock(t) ==
    /\ pc[t] = "exec_check"
    /\ needs_check(endpoint[t])
    /\ can_read(lock)
    /\ lock' = [lock EXCEPT !.readers = @ \cup {t}]
    /\ pc' = [pc EXCEPT ![t] = "exec_check_read"]
    /\ UNCHANGED <<auth_data, retry_count, configVars, now, calls, issued, op, endpoint,
                   authLocals, execLocals, result, last_written>>

\* after_check with the condition negated.
after_check_negated(expiring) == IF expiring THEN "exec_token" ELSE "auth_send"

\* execute, lines 219-222: where the call goes after about_to_expire().
after_check(expiring) == IF expiring THEN "auth_send" ELSE "exec_token"

\* execute, line 219: .about_to_expire(), and the guard is dropped.
ExecCheckRead(t) ==
    /\ pc[t] = "exec_check_read"
    /\ observed' = [observed EXCEPT ![t] = about_to_expire(auth_data, now)]
    /\ lock' = release_read(lock, t)
    /\ pc' = [pc EXCEPT ![t] = after_check(about_to_expire(auth_data, now))]
    /\ handshakes' = [handshakes EXCEPT ![t] =
            IF after_check(about_to_expire(auth_data, now)) = "auth_send"
            THEN @ + 1 ELSE @]
    /\ UNCHANGED <<auth_data, retry_count, configVars, now, calls, issued, op, endpoint,
                   attempts, retry_cause, token_resp, parsed, upd, hs, bearer,
                   sent, outcome, result, last_written, request>>

\* auth_return without the ? of line 221: execute goes on after a failure.
auth_return_error_ignored(caller, ok) ==
    IF caller = "execute" THEN "exec_token" ELSE "done"

\* auth_return into a loop: execute checks the expiry again.
auth_return_recheck(caller, ok) ==
    IF ok /\ caller = "execute" THEN "exec_check" ELSE "done"

\* auth_return with the request sent after a failed refresh.
auth_return_error_to_send(caller, ok) ==
    IF caller = "execute" THEN (IF ok THEN "exec_token" ELSE "exec_send")
    ELSE "done"

\* authenticate returns: into execute (line 221, where ? ends the call on
\* an error) or to the caller.
auth_return(caller, ok) ==
    IF ok /\ caller = "execute" THEN "exec_token" ELSE "done"

\* The code of what a retry followed: the status of the response, 0 for a
\* transient network error, 1 for another network error.
cause_of(o) ==
    IF o.kind = "neterr" THEN (IF o.transient THEN 0 ELSE 1) ELSE o.status

\* authenticate, line 288: one send of the token request by the retry
\* client, with an outcome of O.  A transient failure within the retry
\* budget is retried, a network error otherwise ends authenticate, any
\* response is returned.
AuthSend(t, O) ==
    /\ pc[t] = "auth_send"
    /\ attempts' = [attempts EXCEPT ![t] = @ + 1]
    /\ \E o \in O :
        IF should_retry(o, attempts[t], retries_of(retry_count))
        THEN /\ retry_cause' = [retry_cause EXCEPT ![t] = cause_of(o)]
             /\ UNCHANGED <<pc, token_resp, result, hs, issued>>
        ELSE IF o.kind = "neterr"
        THEN /\ pc' = [pc EXCEPT ![t] = auth_return(op[t], FALSE)]
             /\ result' = [result EXCEPT ![t] = MiddlewareError]
             /\ hs' = [hs EXCEPT ![t] = "failed"]
             /\ retry_cause' = [retry_cause EXCEPT ![t] = -1]
             /\ UNCHANGED <<token_resp, issued>>
        ELSE /\ pc' = [pc EXCEPT ![t] = "auth_parse"]
             /\ token_resp' = [token_resp EXCEPT ![t] =
                    [status |-> o.status, body |-> o.body,
                     id |-> IF o.body.kind = "token" THEN issued + 1 ELSE 0]]
             /\ issued' = IF o.body.kind = "token" THEN issued + 1 ELSE issued
             /\ retry_cause' = [retry_cause EXCEPT ![t] = -1]
             /\ UNCHANGED <<result, hs>>
    /\ UNCHANGED <<clientVars, now, calls, op, endpoint, parsed, upd,
                   handshakes, execLocals, last_written>>

\* authenticate, line 289: the body is deserialized whatever the status; a
\* body that is no token response ends authenticate with the serde error.
AuthParse(t) ==
    /\ pc[t] = "auth_parse"
    /\ LET r == parse_auth_response(token_resp[t].body, token_resp[t].id) IN
        IF r.ok
        THEN /\ parsed' = [parsed EXCEPT ![t] = r.value]
             /\ pc' = [pc EXCEPT ![t] = "auth_lock"]
             /\ UNCHANGED <<result, hs, token_resp>>
        ELSE /\ pc' = [pc EXCEPT ![t] = auth_return(op[t], FALSE)]
             /\ result' = [result EXCEPT ![t] = SerdeError]
             /\ hs' = [hs EXCEPT ![t] = "failed"]
             /\ token_resp' = [token_resp EXCEPT ![t] = NoTokenResp]
             /\ UNCHANGED parsed
    /\ UNCHANGED <<clientVars, now, calls, issued, op, endpoint, attempts,
                   retry_cause, upd, handshakes, execLocals, last_written>>

\* authenticate, line 291: self.auth_data.write().await
AuthLock(t) ==
    /\ pc[t] = "auth_lock"
    /\ can_write(lock)
    /\ lock' = [lock EXCEPT !.writer = t]
    /\ pc' = [pc EXCEPT ![t] = "auth_update"]
    /\ UNCHANGED <<auth_data, retry_count, configVars, now, calls, issued, op, endpoint,
                   authLocals, execLocals, result, last_written>>

\* authenticate, lines 291-292: .update(parsed_response), one field at a
\* time; after the last one the guard is dropped and Ok(()) returned.
AuthUpdate(t) ==
    /\ pc[t] = "auth_update"
    /\ auth_data' = update_field(auth_data, parsed[t], upd[t], now)
    /\ IF upd[t] + 1 = UpdateSteps
       THEN /\ lock' = [lock EXCEPT !.writer = 0]
            /\ pc' = [pc EXCEPT ![t] = auth_return(op[t], TRUE)]
            /\ hs' = [hs EXCEPT ![t] = "ok"]
            /\ result' = [result EXCEPT ![t] =
                    IF op[t] = "authenticate" THEN Ok(EmptyShaped) ELSE @]
            /\ last_written' = [id |-> parsed[t].id, at |-> now,
                                expires_in |-> parsed[t].expires_in]
            /\ upd' = [upd EXCEPT ![t] = 0]
            /\ parsed' = [parsed EXCEPT ![t] = NoAuthResponse]
            /\ token_resp' = [token_resp EXCEPT ![t] = NoTokenResp]
       ELSE /\ upd' = [upd EXCEPT ![t] = @ + 1]
            /\ UNCHANGED <<lock, pc, hs, result, last_written, parsed,
                           token_resp>>
    /\ UNCHANGED <<retry_count, configVars, now, calls, issued, op, endpoint, attempts,
                   retry_cause, handshakes, execLocals>>

\* execute, line 226: self.auth_data.read().await
ExecTokenLock(t) ==
    /\ pc[t] = "exec_token"
    /\ can_read(lock)
    /\ lock' = [lock EXCEPT !.readers = @ \cup {t}]
    /\ pc' = [pc EXCEPT ![t] = "exec_token_read"]
    /\ UNCHANGED <<auth_data, retry_count, configVars, now, calls, issued, op, endpoint,
                   authLocals, execLocals, result, last_written>>

\* execute, lines 224-227: the Bearer header from .access_token, and the
\* guard is dropped.
ExecTokenRead(t) ==
    /\ pc[t] = "exec_token_read"
    /\ bearer' = [bearer EXCEPT ![t] = auth_data.access_token]
    /\ request' = [request EXCEPT ![t] = header(@, Bearer(auth_data.access_token))]
    /\ lock' = release_read(lock, t)
    /\ pc' = [pc EXCEPT ![t] = "exec_send"]
    /\ UNCHANGED <<auth_data, retry_count, configVars, now, calls, issued, op, endpoint,
                   authLocals, observed, sent, outcome, result, last_written>>

\* after_send with the send repeated after a transport error.
after_send_retrying(o) == IF o.kind = "neterr" THEN "exec_send" ELSE "done"

\* execute, lines 229-250: every path out of the send returns from execute.
after_send(o) == "done"

\* execute, lines 229-250: request.send().await with an outcome of O, and
\* the mapping of the outcome to the call's result.  The request and its
\* header are consumed by the send.
ExecSend(t, O) ==
    /\ pc[t] = "exec_send"
    /\ sent' = [sent EXCEPT ![t] = @ + 1]
    /\ \E o \in O :
        /\ outcome' = [outcome EXCEPT ![t] = o]
        /\ result' = [result EXCEPT ![t] = map_outcome(o, endpoint[t].response)]
        /\ pc' = [pc EXCEPT ![t] = after_send(o)]
    /\ bearer' = [bearer EXCEPT ![t] = 0]
    /\ request' = [request EXCEPT ![t] = NoRequest]
    /\ attempts' = [attempts EXCEPT ![t] = 0]
    /\ UNCHANGED <<clientVars, now, calls, issued, op, endpoint, retry_cause,
                   token_resp, parsed, upd, hs, handshakes, observed,
                   last_written>>

\* Time passes.
Tick ==
    /\ now < MaxTime
    /\ now' = now + 1
    /\ UNCHANGED <<clientVars, calls, issued, pc, op, endpoint, authLocals,
                   execLocals, result, last_written>>

(* ------------------- concurrent calls on one Client -------------------- *)
\* The calls of several tasks interleave at one reading of the clock and
\* without retries: a token is about to expire or not by its lifetime.  The
\* inputs are one descriptor per auth strategy and one outcome per way a
\* send can end.
ConcMethods == {"get"}

ConcEndpoints == {e \in Endpoints : e.response = "required"}

ConcTokenOutcomes ==
    {o \in TokenOutcomes :
        \/ o.kind = "neterr" /\ o.transient
        \/ o.kind = "response" /\ o.status = 200 /\ o.body.kind = "token"
        \/ o.kind = "response" /\ o.status = 401 /\ o.body.kind = "envelope"
        \/ o.kind = "response" /\ o.status = 500 /\ o.body.kind = "garbage"}

ConcPrimaryOutcomes ==
    {o \in PrimaryOutcomes :
        \/ o.kind = "neterr"
        \/ o.kind = "response" /\ o.status = 200 /\ o.body = [kind |-> "doc", v |-> 1]
        \/ o.kind = "response" /\ o.status = 401
                /\ o.body = [kind |-> "envelope", v |-> 1]}

Next ==
    \/ \E t \in Tasks :
        \/ Verb(t, ConcMethods, ConcEndpoints)
        \/ CallAuthenticate(t)
        \/ ExecSkipCheck(t)
        \/ ExecCheckLock(t)
        \/ ExecCheckRead(t)
        \/ AuthSend(t, ConcTokenOutcomes)
        \/ AuthParse(t)
        \/ AuthLock(t)
        \/ AuthUpdate(t)
        \/ ExecTokenLock(t)
        \/ ExecTokenRead(t)
        \/ ExecSend(t, ConcPrimaryOutcomes)

Spec == InitConc /\ [][Next]_vars

(* ------------------- concurrent calls, fairly scheduled ---------------- *)
\* Concurrent execute calls with every retry policy, under the scheduling
\* the runtime gives: a task that can take a step of its call takes it
\* (every send returns, every ready future is polled), and a task that asks
\* for the lock gets it if the lock is free again and again (tokio's RwLock
\* is fair).  Starting a call is up to the caller and is not forced.  A
\* send of the token request fails for now or is answered with a token; the
\* primary request is answered.
FairTokenOutcomes ==
    {o \in ConcTokenOutcomes :
        \/ o.kind = "neterr"
        \/ o.body.kind = "token" /\ o.body.expires_in = MaxLifetime}

FairPrimaryOutcomes == {o \in ConcPrimaryOutcomes : o.status = 200}

\* The steps of a call that wait for nothing but the task being polled.
Run(t) ==
    \/ ExecSkipCheck(t)
    \/ ExecCheckRead(t)
    \/ AuthSend(t, FairTokenOutcomes)
    \/ AuthParse(t)
    \/ AuthUpdate(t)
    \/ ExecTokenRead(t)
    \/ ExecSend(t, FairPrimaryOutcomes)

\* The steps of a call that acquire the lock.
Acquire(t) == ExecCheckLock(t) \/ AuthLock(t) \/ ExecTokenLock(t)

NextFair ==
    \E t \in Tasks :
        \/ Verb(t, ConcMethods, ConcEndpoints)
        \/ Run(t)
        \/ Acquire(t)

Fairness == \A t \in Tasks : WF_vars(Run(t)) /\ SF_vars(Acquire(t))

SpecFair == Init /\ [][NextFair]_vars /\ Fairness

(* --------------------- one caller, call after call --------------------- *)
\* One task makes its calls one after the other while time passes, with
\* every retry policy, every descriptor and every outcome of every send.
NextSeq ==
    \/ Verb(1, ConcMethods, Endpoints)
    \/ CallAuthenticate(1)
    \/ ExecSkipCheck(1)
    \/ ExecCheckLock(1)
    \/ ExecCheckRead(1)
    \/ AuthSend(1, TokenOutcomes)
    \/ AuthParse(1)
    \/ AuthLock(1)
    \/ AuthUpdate(1)
    \/ ExecTokenLock(1)
    \/ ExecTokenRead(1)
    \/ ExecSend(1, PrimaryOutcomes)
    \/ Tick

SpecSeq == Init /\ [][NextSeq]_vars

(* ------------------ one caller, every request, any Client -------------- *)
\* One task calls every verb method with every request body and either set
\* of descriptor headers, authenticates and composes URLs, on a Client of
\* any environment and credentials; the sends end as in the concurrent
\* calls.
ReqEndpoints == {e \in Descriptors : e.response = "empty"}

ReqPaths == {<<"test">>}

ReqQueries ==
    {q \in QueryParams :
        \/ q = [page |-> None, page_size |-> None, total_count_required |-> None]
        \/ q = [page |-> Some(1), page_size |-> Some(10),
                total_count_required |-> Some(TRUE)]}

NextReq ==
    \/ Verb(1, Methods, ReqEndpoints)
    \/ CallAuthenticate(1)
    \/ ExecSkipCheck(1)
    \/ ExecCheckLock(1)
    \/ ExecCheckRead(1)
    \/ AuthSend(1, ConcTokenOutcomes)
    \/ AuthParse(1)
    \/ AuthLock(1)
    \/ AuthUpdate(1)
    \/ ExecTokenLock(1)
    \/ ExecTokenRead(1)
    \/ ExecSend(1, ConcPrimaryOutcomes)
    \/ ComposeUrl(ReqPaths)
    \/ ComposeUrlWithQuery(ReqPaths, ReqQueries)

SpecReq == InitReq /\ [][NextReq]_vars

(* --------------------------- the URL composer -------------------------- *)
\* compose_url and compose_url_with_query on every path and query, on a
\* Client of any environment and credentials.
NextUrl ==
    \/ ComposeUrl(Paths)
    \/ ComposeUrlWithQuery(Paths, QueryParams)

SpecUrl == InitReq /\ [][NextUrl]_vars

TypeOK ==
    /\ lock.writer \in 0..NumTasks
    /\ lock.readers \subseteq Tasks
    /\ now \in 0..MaxTime
    /\ \A t \in Tasks : sent[t] \in 0..1 /\ upd[t] \in 0..UpdateSteps
    /\ environment \in Environments
    /\ \A t \in Tasks : endpoint[t] \in Descriptors
    /\ \A t \in Tasks : request[t].method \in Methods \cup {"none"}

(* ------------------------------- claims -------------------------------- *)
AuthPcs == {"auth_send", "auth_parse", "auth_lock", "auth_update"}
SendPcs == {"exec_token", "exec_token_read", "exec_send"}

\* An AuthData that is the default or the three fields of one response.
Whole(ad) ==
    /\ ad.token_type = ad.access_token
    /\ ad.exp_of = ad.access_token
    /\ ad.access_token = 0 => ad = AuthDataDefault

\* C1: an execute on a TokenRefresh descriptor that saw about_to_expire()
\* true gets to its primary request only after its own handshake has
\* completed and AuthData has been updated; no primary request is sent
\* while the handshake is in flight.
C1_RefreshCompletesBeforeSend ==
    \A t \in Tasks :
        /\ pc[t] \in AuthPcs => sent[t] = 0
        /\ ( /\ op[t] = "execute"
             /\ endpoint[t].auth_strategy = "TokenRefresh"
             /\ observed[t]
             /\ (pc[t] \in SendPcs \/ sent[t] > 0) )
           => (hs[t] = "ok" /\ last_written.id # 0)

C1_Witness ==
    \E t \in Tasks :
        /\ op[t] = "execute" /\ observed[t]
        /\ hs[t] = "ok" /\ sent[t] = 1 /\ pc[t] = "done"

\* C2 as stated: every finished execute has sent exactly one primary
\* request, whatever its outcome.
C2_ExactlyOnePrimary ==
    \A t \in Tasks :
        (pc[t] = "done" /\ op[t] = "execute") => sent[t] = 1

\* C2 as amended: an execute never sends more than one primary request; a
\* finished one has sent exactly one unless its token refresh failed, and
\* then it has sent none.
C2_OnePrimaryUnlessRefreshFailed ==
    \A t \in Tasks :
        /\ sent[t] <= 1
        /\ (pc[t] = "done" /\ op[t] = "execute")
           => sent[t] = (IF hs[t] = "failed" THEN 0 ELSE 1)

C2_Witness ==
    \E t \in Tasks :
        /\ pc[t] = "done" /\ op[t] = "execute"
        /\ hs[t] = "ok" /\ sent[t] = 1 /\ result[t] = SerdeError

\* C3: once the token endpoint has answered with a non-2xx status or with
\* a body that is no token response, authenticate fails and never gets to
\* write AuthData.
C3_FailedAuthLeavesAuthData ==
    \A t \in Tasks :
        ( /\ token_resp[t].status # 0
          /\ \/ ~is_success(token_resp[t].status)
             \/ token_resp[t].body.kind # "token" )
        => pc[t] \notin {"auth_lock", "auth_update"}

\* C4: whatever a reader sees under the shared lock, and whatever AuthData
\* holds while no update is under way, is the default or the token, type
\* and expiry of one response: that of the latest completed update.
C4_NoTornAuthData ==
    /\ lock.readers # {} => Whole(auth_data)
    /\ lock.writer = 0 =>
        /\ Whole(auth_data)
        /\ auth_data.access_token = last_written.id
        /\ last_written.id # 0 =>
                auth_data.expires_at = last_written.at + last_written.expires_in

C4_Witness ==
    \E t, u \in Tasks :
        /\ pc[t] = "exec_token_read" /\ pc[u] = "auth_lock"
        /\ last_written.id # 0 /\ parsed[u].id # last_written.id

\* C5 as stated: every execute that saw about_to_expire() true sends its
\* primary request.
C5_EveryRefreshingCallSends ==
    \A t \in Tasks :
        (pc[t] = "done" /\ op[t] = "execute" /\ observed[t]) => sent[t] = 1

\* C5 as amended: each execute that saw about_to_expire() true runs its own
\* handshake and no call runs more than one; a completed update leaves a
\* whole, issued token; a call whose handshake succeeded sends its primary
\* request with an issued token and a call whose handshake failed sends none.
C5_OneHandshakePerCall ==
    /\ \A t \in Tasks :
        /\ handshakes[t] <= 1
        /\ (op[t] = "execute" /\ pc[t] \in AuthPcs) => observed[t]
        /\ (op[t] = "execute" /\ observed[t] /\ pc[t] = "exec_send")
           => (hs[t] = "ok" /\ bearer[t] \in 1..issued)
        /\ (op[t] = "execute" /\ observed[t] /\ pc[t] = "done")
           => sent[t] = (IF hs[t] = "ok" THEN 1 ELSE 0)
    /\ (lock.writer = 0 /\ last_written.id # 0)
       => (Whole(auth_data) /\ auth_data.access_token \in 1..issued)

C5_Witness ==
    \E t, u \in Tasks :
        /\ t # u
        /\ op[t] = "execute" /\ observed[t] /\ pc[t] \in AuthPcs
        /\ op[u] = "execute" /\ observed[u] /\ pc[u] \in AuthPcs

\* The most token requests one authenticate may send.
AttemptBound(rc) == IF rc = << >> THEN 1 ELSE 1 + rc[1]

\* The task's authenticate is past its sends.
AuthSendOver(t) ==
    \/ pc[t] \in {"auth_parse", "auth_lock", "auth_update"}
    \/ pc[t] = "done" /\ (hs[t] = "failed" \/ op[t] = "authenticate")

\* C6: one authenticate sends at most 1 + max-retries token requests, and
\* exactly one when no retry count is configured.
C6_TokenRequestsBounded ==
    \A t \in Tasks :
        /\ attempts[t] <= AttemptBound(retry_count)
        /\ (retry_count = << >> /\ AuthSendOver(t)) => attempts[t] = 1

C6_Witness ==
    \E t \in Tasks :
        /\ retry_count # << >>
        /\ attempts[t] = 1 + retry_count[1]
        /\ pc[t] = "auth_parse"

\* C7 as stated: a retry follows only a network error or a 5xx status.
C7_RetryOnlyAfterNetworkOr5xx ==
    \A t \in Tasks :
        retry_cause[t] \in {-1, 0} \/ retry_cause[t] \div 100 = 5

\* C7 as amended: a retry follows only a transient network error, a 5xx
\* status or a 408 or 429 status; once the response is being deserialized
\* no further token request is sent, and a body that is no token response
\* ends authenticate at once with the deserialization error.
C7_RetryOnlyAfterTransient ==
    [][\A t \in Tasks :
        /\ \/ retry_cause'[t] \in {-1, 0, 408, 429}
           \/ retry_cause'[t] \div 100 = 5
        /\ pc[t] = "auth_parse" => attempts'[t] = attempts[t]
        /\ ( /\ pc[t] = "auth_parse" /\ pc'[t] # "auth_parse"
             /\ token_resp[t].body.kind # "token" )
           => (pc'[t] = "done" /\ hs'[t] = "failed" /\ result'[t] = SerdeError)
      ]_vars

C7_Witness ==
    \E t \in Tasks : retry_cause[t] = 429 /\ attempts[t] = 1

\* C8: while no authenticate has succeeded, no execute on a TokenRefresh
\* descriptor is past its expiry check without a handshake; and an expiry
\* check made right after an authentication whose lifetime exceeds the
\* margin sees about_to_expire() false and starts no handshake.
C8_FirstCallRefreshesFreshCallDoesNot ==
    [][\A t \in Tasks :
        /\ ( /\ last_written'.id = 0
             /\ op'[t] = "execute"
             /\ endpoint'[t].auth_strategy = "TokenRefresh" )
           => (pc'[t] \notin SendPcs /\ sent'[t] = 0)
        /\ ( /\ pc[t] = "exec_check_read" /\ pc'[t] # "exec_check_read"
             /\ last_written.id # 0
             /\ last_written.at = now
             /\ last_written.expires_in > Margin )
           => (pc'[t] = "exec_token" /\ ~observed'[t] /\ handshakes'[t] = 0)
      ]_vars

C8_Witness ==
    \E t \in Tasks :
        /\ op[t] = "execute" /\ endpoint[t].auth_strategy = "TokenRefresh"
        /\ pc[t] = "exec_token" /\ ~observed[t] /\ handshakes[t] = 0
        /\ last_written.id # 0 /\ last_written.at = now

\* C9: a non-2xx response whose body is a well-formed error envelope makes
\* execute return the API error with exactly that envelope.
C9_ApiErrorCarriesEnvelope ==
    \A t \in Tasks :
        ( /\ pc[t] = "done" /\ outcome[t].kind = "response"
          /\ ~is_success(outcome[t].status)
          /\ outcome[t].body.kind = "envelope" )
        => result[t] = ApiError(outcome[t].body.v)

C9_Witness ==
    \E t \in Tasks :
        /\ pc[t] = "done" /\ outcome[t].status = 401
        /\ outcome[t].body = [kind |-> "envelope", v |-> 2]
        /\ result[t] = ApiError(2)

\* C10: a non-2xx response whose body is no error envelope makes execute
\* return an error whose cause is the failed decoding: not a success, not
\* an API error, not a transport failure.
C10_BadEnvelopeIsDecodingError ==
    \A t \in Tasks :
        ( /\ pc[t] = "done" /\ outcome[t].kind = "response"
          /\ ~is_success(outcome[t].status)
          /\ outcome[t].body.kind # "envelope" )
        => ( /\ result[t].kind \notin {"pending", "ok", "api"}
             /\ result[t].cause = "decode" )

C10_Witness ==
    \E t \in Tasks :
        /\ pc[t] = "done" /\ outcome[t].status = 500
        /\ outcome[t].body.kind = "doc"
        /\ result[t] = ReqwestError("decode")

\* C11: a 2xx response with an empty body makes execute return what the
\* empty object literal deserializes to in the descriptor's response type,
\* whatever that type is; for the empty response type (delete webhook) that
\* is success with the empty-shaped value.
C11_EmptyBodyIsEmptyObject ==
    \A t \in Tasks :
        ( /\ pc[t] = "done" /\ outcome[t].kind = "response"
          /\ is_success(outcome[t].status)
          /\ outcome[t].body.kind = "empty" )
        => ( /\ result[t] = from_empty_object(endpoint[t].response)
             /\ endpoint[t].response = "empty" => result[t] = Ok(EmptyShaped) )

C11_Witness ==
    \E t \in Tasks :
        /\ pc[t] = "done" /\ endpoint[t].response = "empty"
        /\ outcome[t].status = 200 /\ outcome[t].body.kind = "empty"
        /\ result[t] = Ok(EmptyShaped)

\* C12: a 2xx response with a non-empty body that does not deserialize into
\* the descriptor's response type (truncated JSON included, the empty
\* response type included) makes execute return the decoding error.
C12_UndecodableBodyIsDecodingError ==
    \A t \in Tasks :
        ( /\ pc[t] = "done" /\ outcome[t].kind = "response"
          /\ is_success(outcome[t].status)
          /\ outcome[t].body.kind # "empty"
          /\ ~from_str(outcome[t].body, endpoint[t].response).ok )
        => result[t] = SerdeError

\* C13: the primary request is sent with exactly one Authorization value,
\* the Bearer value of the token execute read; a value the descriptor's
\* headers put on the request is gone.
C13_OneAuthorizationValue ==
    \A t \in Tasks :
        pc[t] = "exec_send" => request[t].authorization = <<Bearer(bearer[t])>>

\* C14: when the send of the primary request fails with a transport error
\* execute returns that error and is over, having sent that one request;
\* the step leaves AuthData as it was and no token request follows.
C14_TransportErrorPropagated ==
    [][\A t \in Tasks :
        /\ ( /\ pc[t] = "exec_send" /\ pc'[t] # "exec_send"
             /\ outcome'[t].kind = "neterr" )
           => ( /\ result'[t] = ReqwestError("transport")
                /\ pc'[t] = "done"
                /\ sent'[t] = 1
                /\ attempts'[t] = 0
                /\ auth_data' = auth_data
                /\ last_written' = last_written )
        /\ ( /\ pc[t] = "done" /\ outcome[t].kind = "neterr"
             /\ outcome'[t].kind = "neterr" )
           => ( /\ pc'[t] = "done" /\ sent'[t] = 1
                /\ result'[t] = ReqwestError("transport") )
      ]_vars

C14_Witness ==
    \E t \in Tasks :
        /\ pc[t] = "done" /\ op[t] = "execute"
        /\ outcome[t].kind = "neterr" /\ sent[t] = 1
        /\ result[t] = ReqwestError("transport")
        /\ hs[t] = "ok" /\ auth_data.access_token # 0

\* The AuthData that update(resp) at time t leaves.
Updated(resp, t) ==
    [access_token |-> resp.access_token, token_type |-> resp.token_type,
     expires_at |-> t + resp.expires_in, exp_of |-> resp.id]

\* C15: AuthData changes only in the update step of an authenticate that
\* deserialized a token response and holds the lock exclusively; that
\* authenticate returns Ok; when it releases the lock AuthData is the
\* token, type and expiry of its response together; and between two states
\* in which the lock is free or shared AuthData is the same or wholly
\* replaced.
C15_AuthDataWrittenOnlyByUpdate ==
    [][/\ auth_data' # auth_data =>
            \E t \in Tasks :
                /\ pc[t] = "auth_update"
                /\ lock.writer = t /\ lock.readers = {}
                /\ parsed[t].id # 0
                /\ \A u \in Tasks \ {t} : pc'[u] = pc[u]
       /\ \A t \in Tasks :
            (pc[t] = "auth_update" /\ pc'[t] # "auth_update")
            => ( /\ hs'[t] = "ok"
                 /\ result'[t].kind \in {"ok", "pending"}
                 /\ lock'.writer = 0
                 /\ auth_data' = Updated(parsed[t], now) )
       /\ (lock.writer = 0 /\ lock'.writer = 0) => auth_data' = auth_data
       /\ \A t \in Tasks :
            (hs[t] # "failed" /\ hs'[t] = "failed") => auth_data' = auth_data
      ]_vars

C15_Witness ==
    /\ lock.writer = 0
    /\ last_written.id > 1
    /\ auth_data = Updated([id |-> last_written.id,
                            access_token |-> last_written.id,
                            token_type |-> last_written.id,
                            expires_in |-> last_written.expires_in],
                           last_written.at)

\* C16: no compose_url, compose_url_with_query, verb method, execute or
\* authenticate step changes the Client's base URL, environment, username
\* or secret, and the base URL stays that of the environment: compose_url
\* sets the path on a clone.
C16_ClientConfigurationFixed ==
    [][/\ base_url' = base_url
       /\ environment' = environment
       /\ username' = username
       /\ client_secret' = client_secret
       /\ base_url' = as_url(environment')
      ]_vars

C16_Witness ==
    /\ url.result # None
    /\ url.result[1].path # base_url.path
    /\ base_url = as_url(environment)
    /\ last_written.id # 0
    /\ \E t \in Tasks : pc[t] = "done" /\ op[t] = "execute" /\ sent[t] = 1

\* C17: the request a verb method hands to execute has the JSON text of the
\* descriptor's request body when the method is post or patch and the
\* descriptor has a request body, and no body otherwise; and every call of
\* a verb method gets to execute.
C17_BodyOnlyWherePresent ==
    \A t \in Tasks :
        /\ (op[t] = "execute" /\ pc[t] \notin {"idle", "done"})
           => request[t].body =
                IF /\ request[t].method \in {"post", "patch"}
                   /\ endpoint[t].request_body # "none"
                THEN Some(to_string(endpoint[t].request_body).text)
                ELSE None
        /\ pc[t] = "done" => op[t] \in {"execute", "authenticate"}

\* The host the claims name for each environment.
HostOf(env) ==
    IF env = "Sandbox" THEN "api-m.sandbox.paypal.com" ELSE "api-m.paypal.com"

\* C18: what compose_url(path) returns is the https base URL of the
\* Client's environment (the sandbox host for Sandbox, the host without
\* sandbox. for Live) with its path set to path and no query, whatever the
\* credentials.
C18_ComposeUrlIsBaseWithPath ==
    (url.result # None /\ url.query = None)
    => ( /\ url.result[1] = set_path(as_url(environment), url.path)
         /\ url.result[1].scheme = "https"
         /\ url.result[1].host = HostOf(environment)
         /\ url.result[1].query = None
         /\ url.result[1].path \in {encode_path(url.path),
                                    <<"/">> \o encode_path(url.path)}
         /\ Head(url.result[1].path) = "/" )

C18_Witness ==
    /\ environment = "Live" /\ username = "u"
    /\ url.path = <<"test">> /\ url.query = None
    /\ url.result = Some([scheme |-> "https", host |-> "api-m.paypal.com",
                          path |-> <<"/", "test">>, query |-> None])

\* The fields of QueryParams in the order the struct declares them.
FieldOrder == <<"page", "page_size", "total_count_required">>

Rank(key) == CHOOSE i \in 1..Len(FieldOrder) : FieldOrder[i] = key

\* The numbers a query field is read back as.
QueryNumbers == 0..99

\* The value of the pair with the key, read back as a number or a boolean.
ReadNumber(params, key) ==
    IF \E i \in 1..Len(params) : params[i].key = key
    THEN LET i == CHOOSE i \in 1..Len(params) : params[i].key = key
         IN Some(CHOOSE n \in QueryNumbers : fmt_u64(n) = params[i].value)
    ELSE None

ReadBool(params, key) ==
    IF \E i \in 1..Len(params) : params[i].key = key
    THEN LET i == CHOOSE i \in 1..Len(params) : params[i].key = key
         IN Some(params[i].value = <<"true">>)
    ELSE None

\* The query object a query string reads back as.
ReadBack(params) ==
    [page |-> ReadNumber(params, "page"),
     page_size |-> ReadNumber(params, "page_size"),
     total_count_required |-> ReadBool(params, "total_count_required")]

EmptyQuery == [page |-> None, page_size |-> None, total_count_required |-> None]

\* C19: what compose_url_with_query(path, query) returns is compose_url(path)
\* with a query component exactly when the query object has a field set: an
\* empty query object gives the URL of compose_url with no query component,
\* not an empty one; otherwise the query is the set fields as key=value
\* pairs in the order page, page_size, total_count_required, and reads back
\* as the query object.
C19_QueryIffNonEmpty ==
    (url.result # None /\ url.query # None)
    => LET q == url.query[1]
           u == url.result[1]
           plain == set_path(as_url(environment), url.path)
       IN /\ [u EXCEPT !.query = None] = plain
          /\ (u.query # None) <=> (q # EmptyQuery)
          /\ q = EmptyQuery => u = plain
          /\ u.query # Some(<< >>)
          /\ u.query # None =>
                /\ \A i, j \in 1..Len(u.query[1]) :
                        i < j => Rank(u.query[1][i].key) < Rank(u.query[1][j].key)
                /\ ReadBack(u.query[1]) = q

C19_Witness ==
    /\ url.path = <<"test">>
    /\ url.query = Some([page |-> Some(1), page_size |-> Some(10),
                         total_count_required |-> Some(TRUE)])
    /\ url.result # None
    /\ url.result[1].host = "api-m.sandbox.paypal.com"
    /\ url.result[1].path = <<"/", "test">>
    /\ url.result[1].query =
            Some(<<[key |-> "page", value |-> <<"1">>],
                   [key |-> "page_size", value |-> <<"1", "0">>],
                   [key |-> "total_count_required", value |-> <<"true">>]>>)

\* C20: when the authenticate that execute started fails, execute is over
\* at that step with the error authenticate failed with (the middleware's
\* error after the sends, the serde error after the deserialization), and
\* the call has sent and will send no primary request.
C20_FailedRefreshSendsNothing ==
    [][\A t \in Tasks :
        /\ ( /\ op[t] = "execute" /\ pc[t] \in AuthPcs
             /\ hs'[t] = "failed" )
           => ( /\ pc'[t] = "done"
                /\ result'[t] = (IF pc[t] = "auth_send" THEN MiddlewareError
                                 ELSE SerdeError)
                /\ request'[t] = request[t] )
        /\ (op'[t] = "execute" /\ hs'[t] = "failed")
           => ( /\ pc'[t] = "done" /\ sent'[t] = 0
                /\ outcome'[t] = NoOutcome
                /\ result'[t] \in {MiddlewareError, SerdeError} )
      ]_vars

C20_Witness ==
    \E t \in Tasks :
        /\ op[t] = "execute" /\ observed[t] /\ hs[t] = "failed"
        /\ pc[t] = "done" /\ sent[t] = 0
        /\ result[t] = MiddlewareError /\ attempts[t] = 2

\* C21: an execute on a descriptor whose auth strategy is None never runs
\* authenticate, whatever AuthData holds: it goes from its entry to the
\* token read, its Bearer value is the token AuthData holds at that read
\* (the empty default while no authenticate has written), and it sends its
\* primary request.
C21_NoneStrategyNeverAuthenticates ==
    [][\A t \in Tasks :
        (op'[t] = "execute" /\ endpoint'[t].auth_strategy = "None")
        => ( /\ pc'[t] \notin AuthPcs \cup {"exec_check_read"}
             /\ handshakes'[t] = 0 /\ hs'[t] = "none" /\ attempts'[t] = 0
             /\ ~observed'[t]
             /\ issued' = issued \/ pc'[t] = pc[t]
             /\ pc[t] = "exec_check" => pc'[t] \in {"exec_check", "exec_token"}
             /\ (pc[t] = "exec_token_read" /\ pc'[t] = "exec_send")
                => ( /\ bearer'[t] = auth_data.access_token
                     /\ last_written.id = 0 => bearer'[t] = 0
                     /\ request'[t].authorization
                            = Append(request[t].authorization,
                                     Bearer(auth_data.access_token)) )
             /\ pc'[t] = "done" => sent'[t] = 1 )
      ]_vars

C21_Witness ==
    \E t \in Tasks :
        /\ op[t] = "execute" /\ endpoint[t].auth_strategy = "None"
        /\ pc[t] = "exec_send" /\ handshakes[t] = 0
        /\ last_written.id # 0 /\ about_to_expire(auth_data, now)
        /\ bearer[t] = last_written.id

\* Where a task holds the lock shared, and where it holds it exclusively.
ReadHeldPcs == {"exec_check_read", "exec_token_read"}
WriteHeldPcs == {"auth_update"}

\* The task waits for the lock.
Waiting(t) ==
    \/ pc[t] = "exec_check" /\ needs_check(endpoint[t]) /\ ~can_read(lock)
    \/ pc[t] = "exec_token" /\ ~can_read(lock)
    \/ pc[t] = "auth_lock" /\ ~can_write(lock)

\* C22: the lock is held shared only between an acquisition for the expiry
\* check or the token read and that read, and exclusively only during the
\* update: never while a task is in the handshake, waits for the lock or
\* sends.  A task that holds the lock can always take its next step, every
\* waiting task waits for such a task, and while any call is under way
\* some step is possible.
C22_NoDeadlockOnAuthData ==
    /\ lock.readers = {t \in Tasks : pc[t] \in ReadHeldPcs}
    /\ \A t \in Tasks : (lock.writer = t) <=> (pc[t] \in WriteHeldPcs)
    /\ \A t \in Tasks :
        /\ pc[t] \in ReadHeldPcs \cup WriteHeldPcs
           => ENABLED (ExecCheckRead(t) \/ ExecTokenRead(t) \/ AuthUpdate(t))
        /\ Waiting(t) =>
                \E u \in Tasks \ {t} :
                    /\ pc[u] \in ReadHeldPcs \cup WriteHeldPcs
                    /\ ~Waiting(u)
    /\ (\E t \in Tasks : pc[t] \notin {"idle", "done"}) => ENABLED Next

C22_Witness ==
    \E t, u \in Tasks :
        /\ pc[t] = "auth_lock" /\ Waiting(t)
        /\ pc[u] = "exec_token_read" /\ observed[u] /\ hs[u] = "ok"

\* How far a call has got: every step of a call moves it forward, but for
\* the retry of the token request.
Progress(p) ==
    CASE p = "idle" -> 0
      [] p = "exec_check" -> 1
      [] p = "exec_check_read" -> 2
      [] p = "auth_send" -> 3
      [] p = "auth_parse" -> 4
      [] p = "auth_lock" -> 5
      [] p = "auth_update" -> 6
      [] p = "exec_token" -> 7
      [] p = "exec_token_read" -> 8
      [] p = "exec_send" -> 9
      [] OTHER -> 10

\* No call is under way.
Quiescent == \A t \in Tasks : pc[t] \in {"idle", "done"}

\* C23: under fair scheduling every execute returns a result or an error:
\* the calls started are finitely many, so that says that in the end no
\* call is under way for good, and each call that is over has its result.
\* A call runs at most one handshake, of at most 1 + max-retries token
\* requests, and sends at most one primary request; but for the retries of
\* the token request, which use up that budget, and the field writes of
\* the update, every step of a call takes it forward.
C23_ExecuteTerminates ==
    /\ [][\A t \in Tasks :
            /\ handshakes'[t] <= 1
            /\ attempts'[t] <= AttemptBound(retry_count)
            /\ sent'[t] <= 1
            /\ (pc[t] \notin {"idle", "done"} /\ pc'[t] # pc[t])
               => Progress(pc'[t]) > Progress(pc[t])
            /\ ( /\ pc[t] \notin {"idle", "done"} /\ pc'[t] = pc[t]
                 /\ <<attempts[t], upd[t]>> # <<attempts'[t], upd'[t]>> )
               => ( /\ pc[t] \in {"auth_send", "auth_update"}
                    /\ attempts'[t] + upd'[t] = attempts[t] + upd[t] + 1 )
            /\ pc'[t] = "done" => result'[t] # Pending
       ]_vars
    /\ <>[]Quiescent

C23_Witness ==
    \E t, u \in Tasks :
        /\ t # u /\ retry_count # << >>
        /\ op[t] = "execute" /\ pc[t] = "done" /\ hs[t] = "ok" /\ sent[t] = 1
        /\ result[t] # Pending
        /\ op[u] = "execute" /\ pc[u] = "auth_lock"

\* C24: when an execute on a TokenRefresh descriptor is about to send its
\* primary request, under any interleaving with other calls, the Bearer
\* value of the request is a token an authenticate that returned Ok wrote
\* to AuthData, never the empty default: an update has completed, and
\* either the call found AuthData not about to expire at its check, or its
\* own authenticate returned Ok before the token was read.
C24_BearerWrittenByAuthentication ==
    \A t \in Tasks :
        ( /\ op[t] = "execute" /\ pc[t] = "exec_send"
          /\ endpoint[t].auth_strategy = "TokenRefresh" )
        => ( /\ bearer[t] \in 1..issued
             /\ bearer[t] # AuthDataDefault.access_token
             /\ request[t].authorization = <<Bearer(bearer[t])>>
             /\ last_written # NoUpdate
             /\ \/ ~observed[t] /\ handshakes[t] = 0
                \/ observed[t] /\ hs[t] = "ok" /\ handshakes[t] = 1 )

\* Two calls on TokenRefresh descriptors are about to send: one refreshed
\* the token itself, the other found the token written meanwhile and reads
\* a token another call wrote.
C24_Witness ==
    \E t, u \in Tasks :
        /\ t # u
        /\ op[t] = "execute" /\ pc[t] = "exec_send"
        /\ endpoint[t].auth_strategy = "TokenRefresh"
        /\ observed[t] /\ hs[t] = "ok"
        /\ op[u] = "execute" /\ pc[u] = "exec_send"
        /\ endpoint[u].auth_strategy = "TokenRefresh"
        /\ ~observed[u] /\ bearer[u] # 0

====
